---- MODULE Spec2Model ----
(***************************************************************************)
(* Checkout / cart / order-status core of the e-commerce API.              *)
(*                                                                         *)
(* The committed database (products, carts, cart_items, orders,            *)
(* order_items) is the shared state.  Every request runs in a session of   *)
(* its own (app/db/session.py, get_session): the rows a handler flushes    *)
(* stay private to the session until get_session commits after the handler *)
(* returned, and are discarded when the handler raised or was cancelled.   *)
(* Every `await` of a handler is a suspension point; statements of one     *)
(* session between which no other session can observe or disturb anything  *)
(* are taken in one step.  The database is modelled as PostgreSQL at READ  *)
(* COMMITTED: a statement sees the rows committed when it runs, and        *)
(* SELECT ... FOR UPDATE holds the row locks until the transaction ends.   *)
(***************************************************************************)
EXTENDS Integers, FiniteSets, Sequences, TLC

\* ---------------------------------------------------------------- bounds
MaxStock  == 2      \* initial stock of every product
MaxOrders == 2      \* order rows ever committed
MaxRequests == 3    \* requests served in one behaviour

Users     == {"u1", "u2"}
Products  == {"p1", "p2"}
Procs     == {"r1", "r2"}          \* concurrently served requests
Prefixes  == {"ab", "cd"}          \* first 8 characters of an order uuid

NoProc  == "none"
NoAddr  == "none"
NoCart  == 0
NoQty   == -1                      \* quantity: None
NegQty  == -2                      \* a quantity below zero
NoItem  == <<0, "none">>
NoOrder == <<"none", "none">>

\* addresses are owned by the address book, outside the core: a1 is u1's,
\* a2 is u2's (Address.user_id)
AddressOwner == [a1 |-> "u1", a2 |-> "u2"]
Addresses    == DOMAIN AddressOwner

\* the address references a checkout request carries: none, the caller's
\* own, or one of them another user's or that of no address ("a0")
AddressPairs == {<<NoAddr, NoAddr>>, <<"a1", "a1">>, <<"a2", "a2">>,
                 <<"a1", "a2">>, <<"a2", "a1">>, <<"a0", "a1">>, <<"a2", "a0">>}

InitPrice == [p \in Products |-> IF p = "p1" THEN 1 ELSE 2]

VARIABLES
    stock,      \* products.stock
    price,      \* products.price
    carts,      \* rows of carts:       [id, user]
    items,      \* rows of cart_items:  [id, cart, product, qty, unit_price]
    orders,     \* rows of orders:      [id, user, number, status, total, ship, bill]
    oitems,     \* rows of order_items: [order, product, qty, unit_price]
    lock,       \* FOR UPDATE row locks on products: holder or NoProc
    sess,       \* the session of each request being served
    last,       \* the response of the step just taken, if it completed a request
    served      \* number of requests begun so far

vars == <<stock, price, carts, items, orders, oitems, lock, sess, last, served>>
db   == <<stock, price, carts, items, orders, oitems>>

\* ---------------------------------------------------------------- enums
\* app/core/enums.py
OrderStatus == {"pending", "processing", "shipped", "delivered", "canceled"}

\* the status names of the order status machine (spec 4.2); a request body
\* carries one of them as a string
StatusNames == OrderStatus \cup {"returned", "refunded"}

\* ---------------------------------------------------------------- helpers
RECURSIVE SumQty(_)
SumQty(S) ==
    IF S = {} THEN 0
    ELSE LET x == CHOOSE y \in S : TRUE IN x.qty + SumQty(S \ {x})

Idle == [op |-> "none", pc |-> "idle", user |-> "none", cart |-> NoCart,
         items |-> {}, seen |-> [p \in Products |-> -1],
         order |-> NoOrder, ship |-> NoAddr, bill |-> NoAddr,
         product |-> "none", qty |-> 0, item |-> NoItem, uprice |-> 0,
         cur |-> "none", status |-> "none", req |-> 0, had |-> 0, want |-> 0]

\* the response to a request: the operation, the caller, what was returned
\* or raised, and for orders the order and the status asked for or returned
\* (`from`: the status the order had; `at`: where the handler stood or
\* which of its branches it took; `found`: the order rows returned)
Done(op, u, outcome, oid, st) ==
    [op |-> op, user |-> u, outcome |-> outcome, order |-> oid, status |-> st,
     from |-> "none", at |-> "none", found |-> {}]

NoResponse == Done("none", "none", "none", NoOrder, "none")

\* the step completes no request
Silent == last' = NoResponse

Smallest(S) == CHOOSE n \in S : \A m \in S : n <= m

\* uuid4 never repeats.  The carts that exist at the start have the
\* identifiers InitIds; the n-th request served creates its rows (at most
\* one cart and one cart item) under an identifier of its own.
InitIds == {1, 2, 3}

FreshId(n) == Cardinality(InitIds) + n

FreshCartId(r) == FreshId(sess[r].req)


\* CartService.get_user_cart: select(Cart).where(Cart.user_id == user_id),
\* .first() of the rows found (no ORDER BY: any of them)
UserCarts(u) == {c \in carts : c.user = u}

CartItems(cid) == {i \in items : i.cart = cid}

\* the committed rows as one value
Rows == [stock |-> stock, carts |-> carts, items |-> items,
         orders |-> orders, oitems |-> oitems]

Init ==
    /\ stock  = [p \in Products |-> MaxStock]
    /\ price  = InitPrice
    /\ carts  = {}
    /\ items  = {}
    /\ orders = {}
    /\ oitems = {}
    /\ lock   = [p \in Products |-> NoProc]
    /\ sess   = [r \in Procs |-> Idle]
    /\ last   = NoResponse
    /\ served = 0

\* ------------------------------------------------------------ the session
\* _order_number: "ORD-" + the first 8 characters of the uuid, upper-cased
Upper == [ab |-> "AB", cd |-> "CD"]
OrderNumber(oid) == <<"ORD-", Upper[oid[1]]>>

\* (the quantity left out of the running total)
LineTotalUnit(it) == it.unit_price

\* total += it.quantity * float(it.unit_price)
LineTotal(it) == it.qty * it.unit_price

RECURSIVE Total(_)
Total(S) ==
    IF S = {} THEN 0
    ELSE LET x == CHOOSE y \in S : TRUE IN LineTotal(x) + Total(S \ {x})

\* the Order row of a checkout session as it stands in the session:
\* number "temp" and total 0 until the loop over the cart items has run
SessionOrder(r) ==
    [id     |-> sess[r].order,
     user   |-> sess[r].user,
     number |-> IF sess[r].pc = "commit" THEN OrderNumber(sess[r].order) ELSE <<"temp">>,
     status |-> "pending",
     total  |-> IF sess[r].pc = "commit" THEN Total(sess[r].items) ELSE 0,
     ship   |-> sess[r].ship,
     bill   |-> sess[r].bill]

\* (the order line priced at the product's price when the order is made)
SessionOrderItemsAtPrice(r) ==
    {[order |-> sess[r].order, product |-> it.product, qty |-> it.qty,
      unit_price |-> price[it.product]] : it \in sess[r].items}

\* OrderItem(order_id, product_id, quantity, unit_price=it.unit_price)
SessionOrderItems(r) ==
    {[order |-> sess[r].order, product |-> it.product, qty |-> it.qty,
      unit_price |-> it.unit_price] : it \in sess[r].items}

\* (one unit taken per line instead of the line's quantity)
NewStockByOne(r, p) ==
    LET its == {it \in sess[r].items : it.product = p} IN
    IF its = {} THEN stock[p] ELSE sess[r].seen[p] - 1

\* p.stock -= it.quantity on the Product loaded under the lock; the ORM
\* writes the attribute's value (UPDATE products SET stock = :value)
NewStock(r, p) ==
    LET its == {it \in sess[r].items : it.product = p} IN
    IF its = {} THEN stock[p] ELSE sess[r].seen[p] - SumQty(its)

\* The committed rows once the session's transaction commits what it has
\* flushed so far.
CommitEffect(r) ==
    CASE sess[r].op = "checkout" /\ sess[r].pc = "fill" ->
            [Rows EXCEPT !.orders = orders \cup {SessionOrder(r)}]
      [] sess[r].op = "checkout" /\ sess[r].pc = "commit" ->
            [stock  |-> [p \in Products |-> NewStock(r, p)],
             carts  |-> {c \in carts : c.id # sess[r].cart},
             items  |-> {i \in items : i.cart # sess[r].cart},
             orders |-> orders \cup {SessionOrder(r)},
             oitems |-> oitems \cup SessionOrderItems(r)]
      [] OTHER -> Rows

\* (a session that commits what was flushed when it is closed)
CloseEffectCommits(r) == CommitEffect(r)

\* get_session when the handler raised or the request was cancelled:
\* `finally: await s.close()` without commit, the transaction is rolled back
CloseEffect(r) == Rows

Apply(e) ==
    /\ stock'  = e.stock
    /\ carts'  = e.carts
    /\ items'  = e.items
    /\ orders' = e.orders
    /\ oitems' = e.oitems
    /\ UNCHANGED price

\* the end of the transaction releases its row locks
Release(r) == lock' = [p \in Products |-> IF lock[p] = r THEN NoProc ELSE lock[p]]

\* the handler raised `err`: the session closes without commit
Raise(r, op, u, err) ==
    /\ Apply(CloseEffect(r))
    /\ Release(r)
    /\ sess' = [sess EXCEPT ![r] = Idle]
    /\ last' = [Done(op, u, err, NoOrder, "none") EXCEPT !.at = sess[r].pc]

\* a request arrives and gets a session (Depends(get_session))
Begin(r) ==
    /\ sess[r].pc = "idle"
    /\ served < MaxRequests
    /\ served' = served + 1

\* a later step of a request
Step(r, op, pc) ==
    /\ sess[r].op = op /\ sess[r].pc = pc
    /\ UNCHANGED served

\* ------------------------------------------------- GET /cart (get_or_create)
\* get_or_create_user_cart, the SELECT: an existing cart is returned and the
\* request commits nothing; otherwise a Cart is added to the session
GetOrCreateRead(r, u) ==
    /\ Begin(r)
    /\ \/ /\ UserCarts(u) # {}
          /\ last' = Done("get_or_create", u, "ok", NoOrder, "none")
          /\ UNCHANGED sess
       \/ /\ UserCarts(u) = {}
          /\ sess' = [sess EXCEPT ![r] = [Idle EXCEPT !.op = "get_or_create",
                                          !.pc = "insert_cart", !.user = u,
                                          !.req = served + 1]]
          /\ Silent
    /\ UNCHANGED <<db, lock>>

\* db.add(cart); flush; refresh; return; get_session commits
GetOrCreateCommit(r) ==
    /\ Step(r, "get_or_create", "insert_cart")
    /\ carts' = carts \cup {[id |-> FreshCartId(r), user |-> sess[r].user]}
    /\ last' = Done("get_or_create", sess[r].user, "ok", NoOrder, "none")
    /\ sess' = [sess EXCEPT ![r] = Idle]
    /\ UNCHANGED <<stock, price, items, orders, oitems, lock>>

\* ------------------------------------------------- POST /cart/items (add_item)
\* the cart get_or_create_user_cart gives a handler: one of the user's
\* carts, or the one it adds to the session (NoCart until it is committed)
CartOf(u) ==
    {c.id : c \in UserCarts(u)} \cup (IF UserCarts(u) = {} THEN {NoCart} ELSE {})

\* (the requested quantity replaces the one the line has)
NewQtyReplace(cur, q) == q

\* new_qty = current_qty + data.quantity
NewQty(cur, q) == cur + q

\* (a quantity equal to the stock refused as well)
ExceedsStockOrEqual(n, p) == n >= stock[p]

\* `if new_qty > product.stock` / `if quantity > product.stock`
ExceedsStock(n, p) == n > stock[p]

\* add_item_to_user_cart up to the stock check: get_or_create_user_cart,
\* ProductService.get, the SELECT of the line for (cart, product)
AddItemRead(r, u, p, q) ==
    /\ Begin(r)
    /\ IF q < 1
       THEN \* CartItemCreate.quantity: Field(default=1, ge=1)
            /\ last' = Done("add_item", u, "ValidationError", NoOrder, "none")
            /\ UNCHANGED <<db, lock, sess>>
       ELSE
       \E cid \in CartOf(u) :
        LET line == {i \in CartItems(cid) : i.product = p}
            cur  == IF line = {} THEN 0 ELSE (CHOOSE i \in line : TRUE).qty
            new  == NewQty(cur, q)
        IN  IF ExceedsStock(new, p)
            THEN Raise(r, "add_item", u, "InsufficientStockError")
            ELSE /\ sess' = [sess EXCEPT ![r] =
                        [Idle EXCEPT !.op = "add_item", !.pc = "write", !.user = u,
                                     !.cart = cid, !.product = p, !.req = served + 1,
                                     !.had = cur, !.want = q,
                                     !.item = IF line = {} THEN NoItem
                                              ELSE (CHOOSE i \in line : TRUE).id,
                                     !.qty = IF line = {} THEN q ELSE new,
                                     !.uprice = price[p]]]
                 /\ Silent /\ UNCHANGED <<db, lock>>

\* item.quantity = new_qty or db.add(CartItem(...)); flush; refresh; return;
\* get_session commits.  The UPDATE of a line that is gone matches no row
\* (StaleDataError), the INSERT of a line whose cart is gone or whose
\* (cart_id, product_id) is taken violates a constraint (IntegrityError).
AddItemWrite(r) ==
    /\ Step(r, "add_item", "write")
    /\ LET s == sess[r] IN
       IF s.cart = NoCart
       THEN /\ carts' = carts \cup {[id |-> FreshCartId(r), user |-> s.user]}
            /\ items' = items \cup {[id |-> <<FreshCartId(r), s.product>>, cart |-> FreshCartId(r),
                                     product |-> s.product, qty |-> s.qty,
                                     unit_price |-> s.uprice]}
            /\ last' = Done("add_item", s.user, "ok", NoOrder, "none")
       ELSE IF s.item # NoItem
       THEN IF \E i \in items : i.id = s.item
            THEN /\ items' = {IF i.id = s.item THEN [i EXCEPT !.qty = s.qty] ELSE i
                              : i \in items}
                 /\ last' = [Done("add_item", s.user, "ok", NoOrder, "none")
                                 EXCEPT !.at = "update"]
                 /\ UNCHANGED carts
            ELSE /\ last' = Done("add_item", s.user, "DBError", NoOrder, "none")
                 /\ UNCHANGED <<carts, items>>
       ELSE IF /\ \E c \in carts : c.id = s.cart
               /\ ~ \E i \in items : i.cart = s.cart /\ i.product = s.product
            THEN /\ items' = items \cup {[id |-> <<FreshId(s.req), s.product>>, cart |-> s.cart,
                                          product |-> s.product, qty |-> s.qty,
                                          unit_price |-> s.uprice]}
                 /\ last' = Done("add_item", s.user, "ok", NoOrder, "none")
                 /\ UNCHANGED carts
            ELSE /\ last' = Done("add_item", s.user, "DBError", NoOrder, "none")
                 /\ UNCHANGED <<carts, items>>
    /\ sess' = [sess EXCEPT ![r] = Idle]
    /\ UNCHANGED <<stock, price, orders, oitems, lock>>

\* --------------------------------------- PUT /cart/items/{id} (update_item)
\* an item id no row has
MissingItem == <<0, "p1">>

\* the item ids a request may name: the ids of the rows there are, or an id
\* that no row has (any other id behaves as that one does)
ItemRefs == {i.id : i \in items} \cup {MissingItem}

\* the quantities an update may carry: CartItemUpdate.quantity is None or
\* an int with ge=0; a direct call of the service may pass one below zero
UpdateQuantities == {NoQty, NegQty} \cup (0 .. MaxStock + 1)

\* (the test for None left out: None goes on to the quantity tests)
UnsetNever(q) == FALSE

\* `if quantity is None: return cart`
Unset(q) == q = NoQty

\* (the line deleted for a negative quantity only)
DeletesNegative(q) == q < 0

\* `if quantity <= 0:` the line is deleted
Deletes(q) == q <= 0

\* (the test of the line's cart left out)
InCartOfAnyone(iid, cid) == \E i \in items : i.id = iid

\* db.get(CartItem, item_id); `if not item or item.cart_id != cart.id`
InCart(iid, cid) == \E i \in items : i.id = iid /\ i.cart = cid

ItemById(iid) == CHOOSE i \in items : i.id = iid

\* update_item_to_user_cart up to the first write: get_or_create_user_cart,
\* db.get(CartItem, item_id), the checks, ProductService.get
UpdateItemRead(r, u, iid, q) ==
    /\ Begin(r)
    /\ \E cid \in CartOf(u) :
        IF ~ InCart(iid, cid)
        THEN Raise(r, "update_item", u, "CartNotFoundError")
        ELSE IF Unset(q)
        THEN /\ last' = [Done("update_item", u, "ok", NoOrder, "none") EXCEPT !.at = "unset"]
             /\ UNCHANGED <<db, lock, sess>>
        ELSE IF Deletes(q)
        THEN /\ sess' = [sess EXCEPT ![r] =
                    [Idle EXCEPT !.op = "update_item", !.pc = "delete", !.user = u,
                                 !.cart = cid, !.item = iid]]
             /\ Silent /\ UNCHANGED <<db, lock>>
        ELSE IF ExceedsStock(q, ItemById(iid).product)
        THEN Raise(r, "update_item", u, "InsufficientStockError")
        ELSE /\ sess' = [sess EXCEPT ![r] =
                    [Idle EXCEPT !.op = "update_item", !.pc = "write", !.user = u,
                                 !.cart = cid, !.item = iid, !.qty = q,
                                 !.product = ItemById(iid).product]]
             /\ Silent /\ UNCHANGED <<db, lock>>

\* item.quantity = quantity; flush; refresh; return; get_session commits.
\* The UPDATE of a line that is gone matches no row (StaleDataError).
UpdateItemWrite(r) ==
    /\ Step(r, "update_item", "write")
    /\ IF \E i \in items : i.id = sess[r].item
       THEN /\ items' = {IF i.id = sess[r].item THEN [i EXCEPT !.qty = sess[r].qty] ELSE i
                         : i \in items}
            /\ last' = Done("update_item", sess[r].user, "ok", NoOrder, "none")
       ELSE /\ last' = Done("update_item", sess[r].user, "DBError", NoOrder, "none")
            /\ UNCHANGED items
    /\ sess' = [sess EXCEPT ![r] = Idle]
    /\ UNCHANGED <<stock, price, carts, orders, oitems, lock>>

\* `if quantity <= 0`: db.delete(item); flush; refresh(cart); return;
\* get_session commits.  The DELETE of a line that is gone is no error; the
\* refresh of a cart that is gone is one.
UpdateItemDelete(r) ==
    /\ Step(r, "update_item", "delete")
    /\ IF \E c \in carts : c.id = sess[r].cart
       THEN /\ items' = {i \in items : i.id # sess[r].item}
            /\ last' = [Done("update_item", sess[r].user, "ok", NoOrder, "none")
                            EXCEPT !.at = "delete"]
       ELSE /\ last' = Done("update_item", sess[r].user, "DBError", NoOrder, "none")
            /\ UNCHANGED items
    /\ sess' = [sess EXCEPT ![r] = Idle]
    /\ UNCHANGED <<stock, price, carts, orders, oitems, lock>>

\* ------------------------------------ DELETE /cart/items/{id} (remove_item)
\* remove_item_from_user_cart up to the delete: get_user_cart, `if not
\* cart: return`, db.get(CartItem, item_id), the check
RemoveItemRead(r, u, iid) ==
    /\ Begin(r)
    /\ \E cid \in CartOf(u) :
        IF cid = NoCart
        THEN /\ last' = Done("remove_item", u, "ok", NoOrder, "none")
             /\ UNCHANGED <<db, lock, sess>>
        ELSE IF ~ InCart(iid, cid)
        THEN Raise(r, "remove_item", u, "CartItemNotFoundError")
        ELSE /\ sess' = [sess EXCEPT ![r] =
                    [Idle EXCEPT !.op = "remove_item", !.pc = "delete", !.user = u,
                                 !.cart = cid, !.item = iid]]
             /\ Silent /\ UNCHANGED <<db, lock>>

\* db.delete(item); flush; return; get_session commits
RemoveItemWrite(r) ==
    /\ Step(r, "remove_item", "delete")
    /\ items' = {i \in items : i.id # sess[r].item}
    /\ last' = Done("remove_item", sess[r].user, "ok", NoOrder, "none")
    /\ sess' = [sess EXCEPT ![r] = Idle]
    /\ UNCHANGED <<stock, price, carts, orders, oitems, lock>>

\* ------------------------------------------------- DELETE /cart (clear)
\* clear_user_cart: get_user_cart, `if not cart: return`
ClearRead(r, u) ==
    /\ Begin(r)
    /\ \E cid \in CartOf(u) :
        IF cid = NoCart
        THEN /\ last' = Done("clear", u, "ok", NoOrder, "none")
             /\ UNCHANGED <<db, lock, sess>>
        ELSE /\ sess' = [sess EXCEPT ![r] =
                    [Idle EXCEPT !.op = "clear", !.pc = "delete", !.user = u,
                                 !.cart = cid]]
             /\ Silent /\ UNCHANGED <<db, lock>>

\* db.delete(cart); flush; get_session commits.  cart_items.cart_id is
\* ON DELETE CASCADE: every line of the cart goes with it.
ClearWrite(r) ==
    /\ Step(r, "clear", "delete")
    /\ carts' = {c \in carts : c.id # sess[r].cart}
    /\ items' = {i \in items : i.cart # sess[r].cart}
    /\ last' = Done("clear", sess[r].user, "ok", NoOrder, "none")
    /\ sess' = [sess EXCEPT ![r] = Idle]
    /\ UNCHANGED <<stock, price, orders, oitems, lock>>

\* ------------------------------------------- PATCH /products/{id} (price)
\* the prices a catalog edit may set
Prices == {InitPrice[p] : p \in Products}

\* ProductService.update with a new price: setattr(db_product, "price", v);
\* db.commit().  The UPDATE waits for the row lock a checkout holds.
ProductUpdatePrice(r, p, v) ==
    /\ Begin(r)
    /\ lock[p] = NoProc
    /\ price' = [price EXCEPT ![p] = v]
    /\ last' = Done("product_update", "admin", "ok", NoOrder, "none")
    /\ UNCHANGED <<stock, carts, items, orders, oitems, lock, sess>>

\* ------------------------------------------------- POST /orders (checkout)
\* 1) cart = get_user_cart(...); `if not cart or not cart.items: raise`.
\* The cart comes with its items (lazy="selectin").
CheckoutLoadCart(r, u) ==
    /\ Begin(r)
    /\ \/ /\ \/ UserCarts(u) = {}
             \/ \E c \in UserCarts(u) : CartItems(c.id) = {}
          /\ Raise(r, "checkout", u, "EmptyCartError")
       \/ \E c \in UserCarts(u) :
            /\ CartItems(c.id) # {}
            /\ sess' = [sess EXCEPT ![r] =
                   [Idle EXCEPT !.op = "checkout", !.pc = "lock", !.user = u,
                                !.cart = c.id, !.items = CartItems(c.id)]]
            /\ Silent /\ UNCHANGED <<db, lock>>

\* 2) the product rows the SELECT ... FOR UPDATE has to lock
Needed(r) == {it.product : it \in sess[r].items}
Held(r)   == {p \in Products : lock[p] = r}

\* (the SELECT without with_for_update(): nothing to wait for)
LockFreeUnlocked(p) == TRUE

\* a row lock is granted when no other transaction holds it
LockFree(p) == lock[p] = NoProc

\* the statement locks the rows one after the other as it finds them and
\* returns each row as committed when its lock was granted
CheckoutLockRow(r, p) ==
    /\ Step(r, "checkout", "lock")
    /\ p \in Needed(r) \ Held(r)
    /\ LockFree(p)
    /\ lock' = [lock EXCEPT ![p] = r]
    /\ sess' = [sess EXCEPT ![r].seen[p] = stock[p]]
    /\ Silent /\ UNCHANGED db

\* (the check passing as soon as one line has enough stock)
StockOKSomeLine(r) == \E it \in sess[r].items : it.qty <= sess[r].seen[it.product]

\* 3) `if not p or it.quantity > p.stock: raise InsufficientStockError()`
\* for every cart item
StockOK(r) == \A it \in sess[r].items : it.qty <= sess[r].seen[it.product]

\* (the ownership of the address left unchecked)
AddressOKAnyOwner(u, a) == a = NoAddr \/ a \in Addresses

\* 4) an address reference, when given, has to be an address of the user
AddressOK(u, a) == a = NoAddr \/ (a \in Addresses /\ AddressOwner[a] = u)

\* a second row with number "temp" waits for the transaction that holds
\* the first one (Order.number is unique)
TempTaken(r) ==
    \E r2 \in Procs \ {r} : sess[r2].op = "checkout" /\ sess[r2].pc \in {"fill", "commit"}

FreshOrderSeq ==
    Smallest((1 .. (MaxOrders + 1)) \ ({o.id[2] : o \in orders} \cup
                                {sess[r].order[2] : r \in {x \in Procs : sess[x].order # NoOrder}}))

\* 3), 4) and the first flush of 5): db.add(order); await db.flush()
CheckoutFlushOrder(r, ship, bill, pre) ==
    /\ Step(r, "checkout", "lock")
    /\ Needed(r) \subseteq Held(r)
    /\ IF ~ StockOK(r)
       THEN Raise(r, "checkout", sess[r].user, "InsufficientStockError")
       ELSE IF ~ AddressOK(sess[r].user, ship) \/ ~ AddressOK(sess[r].user, bill)
       THEN Raise(r, "checkout", sess[r].user, "AddressNotFoundError")
       ELSE /\ ~ TempTaken(r)
            /\ Cardinality(orders) < MaxOrders
            /\ \/ /\ sess' = [sess EXCEPT ![r].pc = "fill", ![r].ship = ship,
                                          ![r].bill = bill,
                                          ![r].order = <<pre, FreshOrderSeq>>]
                  /\ Silent /\ UNCHANGED <<db, lock>>
               \/ \* orders.shipping_address_id / billing_address_id are NOT
                  \* NULL where the tables come from the models (create_all)
                  /\ (ship = NoAddr \/ bill = NoAddr)
                  /\ Raise(r, "checkout", sess[r].user, "DBError")

\* order.number = _order_number(order.id); the loop over the cart items;
\* order.total_amount = total; db.delete(cart); await db.flush().
\* A number that an order already has violates the unique constraint.
CheckoutFill(r) ==
    /\ Step(r, "checkout", "fill")
    /\ IF \E o \in orders : o.number = OrderNumber(sess[r].order)
       THEN Raise(r, "checkout", sess[r].user, "DBError")
       ELSE /\ sess' = [sess EXCEPT ![r].pc = "commit"]
            /\ Silent /\ UNCHANGED <<db, lock>>

\* await db.refresh(order); return order; get_session: await s.commit()
CheckoutCommit(r) ==
    /\ Step(r, "checkout", "commit")
    /\ Apply(CommitEffect(r))
    /\ Release(r)
    /\ last' = Done("checkout", sess[r].user, "ok", sess[r].order, "pending")
    /\ sess' = [sess EXCEPT ![r] = Idle]

\* a failure of a statement, or the client going away, while the request is
\* being served: the handler does not return and get_session closes the
\* session
Abort(r) ==
    /\ sess[r].pc # "idle"
    /\ UNCHANGED served
    /\ Raise(r, sess[r].op, sess[r].user, "Aborted")

\* two transactions each waiting for a row lock the other holds: the
\* database ends one of them with an error (deadlock detected)
Waits(r, r2) ==
    /\ sess[r].op = "checkout" /\ sess[r].pc = "lock"
    /\ \E p \in Needed(r) \ Held(r) : lock[p] = r2

\* (a database that does not look for lock cycles)
DeadlockUndetected(r) == FALSE /\ UNCHANGED vars

DeadlockAbort(r) ==
    /\ \E r2 \in Procs \ {r} : Waits(r, r2) /\ Waits(r2, r)
    /\ UNCHANGED served
    /\ Raise(r, "checkout", sess[r].user, "DBError")

\* ------------------------------------------- PATCH /orders/{id}/status
\* OrderService._ALLOWED_TRANSITIONS
AllowedTransitions ==
    [pending    |-> {"processing", "canceled"},
     processing |-> {"shipped", "canceled"},
     shipped    |-> {"delivered", "returned"},
     delivered  |-> {"returned", "refunded"},
     returned   |-> {"refunded"},
     canceled   |-> {},
     refunded   |-> {}]

\* _ALLOWED_TRANSITIONS.get(current, set())
Allowed(current) ==
    IF current \in DOMAIN AllowedTransitions THEN AllowedTransitions[current] ELSE {}

OrderIds == {o.id : o \in orders}
OrderById(oid) == CHOOSE o \in orders : o.id = oid

\* (the allowed-set test placed before the same-status test)
StatusDecisionAllowedFirst(current, ns) ==
    IF ns \notin Allowed(current) THEN "invalid"
    ELSE IF ns = current THEN "same"
    ELSE "write"

\* update_order_status once the order is loaded: the same status is
\* returned as it is, a status outside the allowed set is refused
StatusDecision(current, ns) ==
    IF ns = current THEN "same"
    ELSE IF ns \notin Allowed(current) THEN "invalid"
    ELSE "write"

\* the response to a status request: `from` is the status the order had
StatusDone(outcome, oid, from, ns) ==
    [Done("update_status", "admin", outcome, oid, ns) EXCEPT !.from = from]

\* the request body is parsed as OrderStatusUpdate (status: OrderStatus);
\* then update_order_status up to the assignment of the new status
UpdateStatusRead(r, oid, ns) ==
    /\ Begin(r)
    /\ LET from == IF oid \in OrderIds THEN OrderById(oid).status ELSE "none" IN
       IF ns \notin OrderStatus
       THEN /\ last' = StatusDone("ValidationError", oid, from, ns)
            /\ UNCHANGED <<db, lock, sess>>
       ELSE IF oid \notin OrderIds
       THEN /\ last' = StatusDone("OrderNotFoundError", oid, from, ns)
            /\ UNCHANGED <<db, lock, sess>>
       ELSE IF StatusDecision(from, ns) = "same"
       THEN /\ last' = StatusDone("ok", oid, from, ns)
            /\ UNCHANGED <<db, lock, sess>>
       ELSE IF StatusDecision(from, ns) = "invalid"
       THEN /\ last' = StatusDone("InvalidOrderStatusTransitionError", oid, from, ns)
            /\ UNCHANGED <<db, lock, sess>>
       ELSE /\ sess' = [sess EXCEPT ![r] =
                   [Idle EXCEPT !.op = "update_status", !.pc = "write", !.order = oid,
                                !.cur = from, !.status = ns]]
            /\ Silent /\ UNCHANGED <<db, lock>>

\* (the quantities of a canceled order put back into the stock)
UpdateStatusWriteRestock(r) ==
    /\ Step(r, "update_status", "write")
    /\ orders' = {IF o.id = sess[r].order THEN [o EXCEPT !.status = sess[r].status] ELSE o
                  : o \in orders}
    /\ stock' = [p \in Products |->
                    IF sess[r].status = "canceled"
                    THEN stock[p] + SumQty({oi \in oitems : oi.order = sess[r].order
                                                            /\ oi.product = p})
                    ELSE stock[p]]
    /\ last' = StatusDone("ok", sess[r].order, sess[r].cur, sess[r].status)
    /\ sess' = [sess EXCEPT ![r] = Idle]
    /\ UNCHANGED <<price, carts, items, oitems, lock>>

\* order.status = new_status; flush; refresh; return; get_session commits
UpdateStatusWrite(r) ==
    /\ Step(r, "update_status", "write")
    /\ orders' = {IF o.id = sess[r].order THEN [o EXCEPT !.status = sess[r].status] ELSE o
                  : o \in orders}
    /\ last' = StatusDone("ok", sess[r].order, sess[r].cur, sess[r].status)
    /\ sess' = [sess EXCEPT ![r] = Idle]
    /\ UNCHANGED <<stock, price, carts, items, oitems, lock>>

MissingOrder == <<"ab", 0>>

\* the callers of the route: the users, whose role is "user", and an
\* administrator (User.role, UserRole)
Admin   == "admin"
Callers == Users \cup {Admin}
Role    == [c \in Callers |-> IF c = Admin THEN "admin" ELSE "user"]

\* role_checker = Depends(RoleChecker([UserRole.ADMIN]))
AllowedRoles == {"admin"}

\* (every role let through)
RoleCheckerAny(c) == TRUE

\* RoleChecker.__call__: `if current_user.role in self.allowed_roles`
RoleChecker(c) == Role[c] \in AllowedRoles

\* the route: its dependencies run before the handler, and RoleChecker
\* raises InsufficientPermissionError for a caller whose role is not allowed
UpdateStatusRoute(r, c, oid, ns) ==
    IF RoleChecker(c)
    THEN UpdateStatusRead(r, oid, ns)
    ELSE /\ Begin(r)
         /\ last' = Done("update_status", c, "InsufficientPermissionError", oid, ns)
         /\ UNCHANGED <<db, lock, sess>>

\* ------------------------------------------- GET /orders/{id} (get_user_order)
\* (the filter on the owner left out)
FindOrderAnyUser(u, oid) == {o \in orders : o.id = oid}

\* select(Order).where(Order.id == order_id).where(Order.user_id == user_id)
FindOrder(u, oid) == {o \in orders : o.id = oid /\ o.user = u}

\* get_user_order: the SELECT, `if not order: raise OrderNotFoundError()`,
\* `return order`; nothing is written
GetUserOrder(r, u, oid) ==
    /\ Begin(r)
    /\ IF FindOrder(u, oid) = {}
       THEN Raise(r, "get_order", u, "OrderNotFoundError")
       ELSE /\ last' = [Done("get_order", u, "ok", oid, "none")
                            EXCEPT !.found = FindOrder(u, oid)]
            /\ UNCHANGED <<db, lock, sess>>

\* ------------------------------------------------- the HTTP boundary
\* app/core/errors.py: the classes that derive from EcomError, as far as
\* the core raises them, and one that has no handler of its own
EcomErrors ==
    {"InsufficientPermissionError", "ProductNotFoundError", "OrderNotFoundError",
     "InsufficientStockError", "EmptyCartError", "CartItemNotFoundError",
     "UserEmailVerificationError"}

\* the domain errors that the services raise and errors.py does not
\* declare (their declaration and their handlers are taken from the
\* error taxonomy)
EcomErrorsElsewhere == {"AddressNotFoundError", "InvalidOrderStatusTransitionError"}

HandlersElsewhere ==
    [AddressNotFoundError |-> 404, InvalidOrderStatusTransitionError |-> 400]

\* register_exception_handlers: the status of each handler registered for
\* a class of its own
OwnHandler ==
    [InsufficientPermissionError |-> 403,
     ProductNotFoundError        |-> 404,
     OrderNotFoundError          |-> 404,
     InsufficientStockError      |-> 400,
     EmptyCartError              |-> 400,
     CartItemNotFoundError       |-> 404]

\* the errors a request of the core can end with; "DBError" stands for the
\* exceptions of the database layer (IntegrityError, StaleDataError), which
\* do not derive from EcomError
ErrorClasses == EcomErrors \cup EcomErrorsElsewhere \cup {"DBError"}

\* (without the handler registered for EcomError)
HttpStatusNoCatchAll(e) ==
    IF e \in DOMAIN OwnHandler THEN OwnHandler[e]
    ELSE IF e \in DOMAIN HandlersElsewhere THEN HandlersElsewhere[e]
    ELSE 500

\* the handler of the nearest class of the exception that has one: its
\* own, else handle_unhandled_ecom_error (400) for an EcomError, else
\* handle_generic_exception (500)
HttpStatus(e) ==
    IF e \in DOMAIN OwnHandler THEN OwnHandler[e]
    ELSE IF e \in DOMAIN HandlersElsewhere THEN HandlersElsewhere[e]
    ELSE IF e \in EcomErrors \cup EcomErrorsElsewhere THEN 400
    ELSE 500

\* ---------------------------------------------------------- specifications
NextCart ==
    \/ \E r \in Procs, u \in Users : GetOrCreateRead(r, u)
    \/ \E r \in Procs : GetOrCreateCommit(r)
    \/ \E r \in Procs, u \in Users, p \in Products, q \in 0 .. MaxStock : AddItemRead(r, u, p, q)
    \/ \E r \in Procs : AddItemWrite(r)
    \/ \E r \in Procs, u \in Users, iid \in ItemRefs, q \in UpdateQuantities :
            UpdateItemRead(r, u, iid, q)
    \/ \E r \in Procs : UpdateItemWrite(r)
    \/ \E r \in Procs : UpdateItemDelete(r)
    \/ \E r \in Procs, u \in Users, iid \in ItemRefs : RemoveItemRead(r, u, iid)
    \/ \E r \in Procs : RemoveItemWrite(r)
    \/ \E r \in Procs, u \in Users : ClearRead(r, u)
    \/ \E r \in Procs : ClearWrite(r)

NextCheckout ==
    \/ \E r \in Procs, u \in Users : CheckoutLoadCart(r, u)
    \/ \E r \in Procs, p \in Products : CheckoutLockRow(r, p)
    \/ \E r \in Procs, ab \in AddressPairs, pre \in Prefixes :
            CheckoutFlushOrder(r, ab[1], ab[2], pre)
    \/ \E r \in Procs : CheckoutFill(r)
    \/ \E r \in Procs : CheckoutCommit(r)
    \/ \E r \in Procs : Abort(r)
    \/ \E r \in Procs : DeadlockAbort(r)

NextStatus ==
    \/ \E r \in Procs, c \in Callers, oid \in OrderIds \cup {MissingOrder}, ns \in StatusNames :
            UpdateStatusRoute(r, c, oid, ns)
    \/ \E r \in Procs : UpdateStatusWrite(r)

\* The carts that add_item calls have built while every product had its
\* initial stock: per user the quantity of each product in the cart (0: no
\* line; no line at all: no cart).  u1 may own a second, empty cart.
CartChoices == [Products -> 0 .. MaxStock]

InitCarts ==
    \E cc \in [Users -> CartChoices], dup \in BOOLEAN :
        LET cid(u)  == IF u = "u1" THEN 1 ELSE 2
            has(u)  == \E p \in Products : cc[u][p] > 0
        IN
        /\ carts = {[id |-> cid(u), user |-> u] : u \in {x \in Users : has(x)}}
                   \cup (IF dup THEN {[id |-> 3, user |-> "u1"]} ELSE {})
        /\ items = {[id |-> <<cid(l[1]), l[2]>>, cart |-> cid(l[1]), product |-> l[2],
                     qty |-> cc[l[1]][l[2]], unit_price |-> InitPrice[l[2]]]
                    : l \in {x \in Users \X Products : cc[x[1]][x[2]] > 0}}
        /\ stock  = [p \in Products |-> MaxStock]
        /\ price  = InitPrice
        /\ orders = {}
        /\ oitems = {}
        /\ lock   = [p \in Products |-> NoProc]
        /\ sess   = [r \in Procs |-> Idle]
        /\ last   = NoResponse
        /\ served = 0

\* One order that a checkout of u1 has created (one p1, both addresses a1)
\* and status requests have moved to any status of OrderStatus; u2 may have
\* a cart.
InitOrders ==
    \E st \in OrderStatus, cc \in CartChoices :
        LET oid == <<"ab", 1>> IN
        /\ orders = {[id |-> oid, user |-> "u1", number |-> OrderNumber(oid),
                      status |-> st, total |-> InitPrice["p1"],
                      ship |-> "a1", bill |-> "a1"]}
        /\ oitems = {[order |-> oid, product |-> "p1", qty |-> 1,
                      unit_price |-> InitPrice["p1"]]}
        /\ stock  = [p \in Products |-> IF p = "p1" THEN MaxStock - 1 ELSE MaxStock]
        /\ price  = InitPrice
        /\ carts  = IF \E p \in Products : cc[p] > 0 THEN {[id |-> 2, user |-> "u2"]} ELSE {}
        /\ items  = {[id |-> <<2, p>>, cart |-> 2, product |-> p, qty |-> cc[p],
                      unit_price |-> InitPrice[p]] : p \in {x \in Products : cc[x] > 0}}
        /\ lock   = [p \in Products |-> NoProc]
        /\ sess   = [r \in Procs |-> Idle]
        /\ last   = NoResponse
        /\ served = 0

\* reads of one order by its owner, by another user, or under an id that
\* no order has
NextOrderRead ==
    \E r \in Procs, u \in Users, oid \in OrderIds \cup {MissingOrder} : GetUserOrder(r, u, oid)

\* The order of InitOrders (u1's), and with or without it an order that a
\* checkout of u2 has created (one p2, both addresses a2).
InitTwoOrders ==
    \E st \in OrderStatus, other \in BOOLEAN :
        LET o1 == <<"ab", 1>>
            o2 == <<"cd", 2>>
        IN
        /\ orders = {[id |-> o1, user |-> "u1", number |-> OrderNumber(o1),
                      status |-> st, total |-> InitPrice["p1"],
                      ship |-> "a1", bill |-> "a1"]}
                    \cup (IF other
                          THEN {[id |-> o2, user |-> "u2", number |-> OrderNumber(o2),
                                 status |-> "pending", total |-> InitPrice["p2"],
                                 ship |-> "a2", bill |-> "a2"]}
                          ELSE {})
        /\ oitems = {[order |-> o1, product |-> "p1", qty |-> 1,
                      unit_price |-> InitPrice["p1"]]}
                    \cup (IF other
                          THEN {[order |-> o2, product |-> "p2", qty |-> 1,
                                 unit_price |-> InitPrice["p2"]]}
                          ELSE {})
        /\ stock  = [p \in Products |->
                        IF p = "p1" \/ other THEN MaxStock - 1 ELSE MaxStock]
        /\ price  = InitPrice
        /\ carts  = {}
        /\ items  = {}
        /\ lock   = [p \in Products |-> NoProc]
        /\ sess   = [r \in Procs |-> Idle]
        /\ last   = NoResponse
        /\ served = 0

\* the orders routes other than checkout, on existing orders
SpecOrders == InitTwoOrders /\ [][NextStatus \/ NextOrderRead]_vars

\* the cart operations, from the empty database
SpecCart == Init /\ [][NextCart]_vars

\* POST /cart/items alone
NextAdd ==
    \/ \E r \in Procs, u \in Users, p \in Products, q \in 0 .. MaxStock : AddItemRead(r, u, p, q)
    \/ \E r \in Procs : AddItemWrite(r)

\* add_item calls on carts that have been filled
SpecAdd == InitCarts /\ [][NextAdd]_vars

\* the status machine on an existing order
SpecStatus == InitOrders /\ [][NextStatus]_vars

SpecCheckout == InitCarts /\ [][NextCheckout]_vars

\* The event loop resumes every handler whose awaited statement can
\* complete, and the database looks for lock cycles once a lock wait has
\* lasted deadlock_timeout: each step of a checkout in progress, and the end
\* of a checkout caught in a cycle, happens if it stays possible.  Nothing
\* obliges a request to arrive or a statement to fail.
CheckoutFairness ==
    \A r \in Procs :
        /\ \A p \in Products : WF_vars(CheckoutLockRow(r, p))
        /\ WF_vars(\E ab \in AddressPairs, pre \in Prefixes :
                        CheckoutFlushOrder(r, ab[1], ab[2], pre))
        /\ WF_vars(CheckoutFill(r))
        /\ WF_vars(CheckoutCommit(r))
        /\ WF_vars(DeadlockAbort(r))

\* every user has one cart, and every cart has some of every product
InitSharedCarts ==
    /\ InitCarts
    /\ \A u \in Users : Cardinality(UserCarts(u)) = 1
    /\ \A c \in carts, p \in Products : \E i \in CartItems(c.id) : i.product = p

SpecCheckoutFair == InitSharedCarts /\ [][NextCheckout]_vars /\ CheckoutFairness

\* catalog edits of a price
NextCatalog == \E r \in Procs, p \in Products, v \in Prices : ProductUpdatePrice(r, p, v)

Next == NextCart \/ NextCheckout \/ NextStatus \/ NextCatalog

\* u1 has put all of p1 and one p2 into the cart, u2 one p1
InitScenario ==
    /\ carts  = {[id |-> 1, user |-> "u1"], [id |-> 2, user |-> "u2"]}
    /\ items  = {[id |-> <<1, "p1">>, cart |-> 1, product |-> "p1", qty |-> MaxStock,
                  unit_price |-> InitPrice["p1"]],
                 [id |-> <<1, "p2">>, cart |-> 1, product |-> "p2", qty |-> 1,
                  unit_price |-> InitPrice["p2"]],
                 [id |-> <<2, "p1">>, cart |-> 2, product |-> "p1", qty |-> 1,
                  unit_price |-> InitPrice["p1"]]}
    /\ stock  = [p \in Products |-> MaxStock]
    /\ price  = InitPrice
    /\ orders = {}
    /\ oitems = {}
    /\ lock   = [p \in Products |-> NoProc]
    /\ sess   = [r \in Procs |-> Idle]
    /\ last   = NoResponse
    /\ served = 0

\* every operation, on two carts that have been filled
Spec == InitScenario /\ [][Next]_vars
\* ------------------------------------------------------------- properties
OrderLines(oid) == {oi \in oitems : oi.order = oid}
Ordered(p)      == SumQty({oi \in oitems : oi.product = p})

\* C1: the stock of a product is never negative and the quantities ordered
\* of it never exceed its initial stock, whatever checkouts of different
\* users run at the same time.
C1_NoOversell ==
    \A p \in Products : stock[p] >= 0 /\ Ordered(p) <= MaxStock

\* a checkout has committed while the checkout of another user, whose cart
\* asks for more of a product of that order than is left, waits for the row
C1_Witness ==
    /\ last.op = "checkout" /\ last.outcome = "ok"
    /\ \E r \in Procs :
         /\ sess[r].op = "checkout" /\ sess[r].pc = "lock"
         /\ sess[r].user # last.user
         /\ \E it \in sess[r].items :
              /\ it.qty > stock[it.product]
              /\ it.product \notin Held(r)
              /\ \E oi \in OrderLines(last.order) : oi.product = it.product

\* C8 (as stated): a status request succeeds and sets the status exactly
\* when the pair (current, requested) is one of the eight of the table over
\* the seven statuses, and is refused as an invalid transition otherwise.
C8_Pairs ==
    {<<"pending", "processing">>, <<"pending", "canceled">>,
     <<"processing", "shipped">>, <<"processing", "canceled">>,
     <<"shipped", "delivered">>, <<"shipped", "returned">>,
     <<"delivered", "returned">>, <<"delivered", "refunded">>,
     <<"returned", "refunded">>}

C8_TableExact ==
    (last.op = "update_status" /\ last.from # "none" /\ last.from # last.status)
        => IF <<last.from, last.status>> \in C8_Pairs
           THEN /\ last.outcome = "ok"
                /\ \E o \in orders : o.id = last.order /\ o.status = last.status
           ELSE /\ last.outcome = "InvalidOrderStatusTransitionError"
                /\ \E o \in orders : o.id = last.order /\ o.status = last.from

\* C9: a status request that asks for the status the order already has
\* returns the order and changes nothing, whatever that status is.
C9_SameStatusNoOp ==
    [][(last'.op = "update_status" /\ last'.from # "none" /\ last'.from = last'.status)
            => (last'.outcome = "ok" /\ UNCHANGED db)]_vars

\* an order in a terminal status was asked to take that status again
C9_Witness ==
    /\ last.op = "update_status" /\ last.outcome = "ok"
    /\ last.from = "canceled" /\ last.status = "canceled"
    /\ \E o \in orders : o.id = last.order /\ o.status = "canceled"

\* C10 (as stated): every user has at most one cart, also when get_or_create
\* runs concurrently for the same user.
C10_OneCartPerUser ==
    \A u \in Users : Cardinality(UserCarts(u)) <= 1
\* a request arrives in this step
Arrives == served' = served + 1

\* the checkout of session r leaves step 2 in this step
Validates(r) ==
    sess[r].op = "checkout" /\ sess[r].pc = "lock" /\ sess'[r].pc # "lock"

\* the checkout of session r completes in this step and returns its order
Returns(r) ==
    /\ sess[r].op = "checkout" /\ sess[r].pc = "commit" /\ sess'[r] = Idle
    /\ last'.op = "checkout" /\ last'.outcome = "ok"

LineOf(x) == [product |-> x.product, qty |-> x.qty, unit_price |-> x.unit_price]
QtyIn(its, p) == SumQty({it \in its : it.product = p})

\* C3: a checkout that signals InsufficientStock or EmptyCart leaves every
\* committed row as it was (no order, no order item, no stock change, the
\* cart and its items unchanged), and a checkout that holds its locks while
\* one line of its cart exceeds the stock never goes on to create an order,
\* however many of its other lines have enough stock.
C3_FailedCheckoutAtomic ==
    [][/\ (last'.op = "checkout"
            /\ last'.outcome \in {"InsufficientStockError", "EmptyCartError"})
          => (UNCHANGED db /\ \A r \in Procs : sess'[r].op = "checkout" => sess'[r] = sess[r])
       /\ \A r \in Procs :
            (/\ sess[r].op = "checkout" /\ Needed(r) \subseteq Held(r)
             /\ \E it \in sess[r].items : it.qty > stock[it.product]
             /\ sess'[r] # sess[r])
            => (/\ sess'[r] = Idle /\ UNCHANGED db
                /\ last'.outcome \in {"InsufficientStockError", "Aborted"})]_vars

\* InsufficientStock was signalled for a cart of several lines of which
\* exactly one exceeds the stock
C3_Witness ==
    /\ last.op = "checkout" /\ last.outcome = "InsufficientStockError"
    /\ \E c \in UserCarts(last.user) :
         /\ Cardinality(CartItems(c.id)) >= 2
         /\ Cardinality({it \in CartItems(c.id) : it.qty > stock[it.product]}) = 1
    /\ orders # {}

\* the whole effect of the checkout of session r, and nothing else
C4_Whole(r) ==
    /\ sess[r].order \notin OrderIds
    /\ \E o \in orders' : o.id = sess[r].order /\ orders' = orders \cup {o}
    /\ sess[r].items # {}
    /\ oitems' = oitems \cup
            {[order |-> sess[r].order, product |-> it.product, qty |-> it.qty,
              unit_price |-> it.unit_price] : it \in sess[r].items}
    /\ \A p \in Products : stock'[p] = stock[p] - QtyIn(sess[r].items, p)
    /\ carts' = {c \in carts : c.id # sess[r].cart}
    /\ items' = {i \in items : i.cart # sess[r].cart}

\* C4: the committed rows change only by a whole checkout: the order, all
\* its items, the stock decrements of all its lines and the deletion of its
\* cart appear in one step, and a checkout that fails or is interrupted at
\* any point commits none of them.
C4_AllOrNothing ==
    [][\/ UNCHANGED <<stock, carts, items, orders, oitems>>
       \/ \E r \in Procs : Returns(r) /\ C4_Whole(r)]_vars

\* a checkout was interrupted after the order, its items, the stock
\* decrements and the cart deletion had been flushed: nothing was committed
C4_Witness ==
    /\ last.op = "checkout" /\ last.outcome = "Aborted" /\ last.at = "commit"
    /\ orders = {} /\ oitems = {}
    /\ \A p \in Products : stock[p] = MaxStock
    /\ \E c \in UserCarts(last.user) : CartItems(c.id) # {}

\* C5 (as stated): after a successful checkout get_user_cart(user) returns
\* none and no item of the former cart remains; after a failed checkout the
\* carts and their items are unchanged.
C5_CartClearedOnlyOnSuccess ==
    [][last'.op = "checkout"
        => IF last'.outcome = "ok"
           THEN /\ {c \in carts' : c.user = last'.user} = {}
                /\ \A r \in Procs :
                     Returns(r) => {i \in items' : i.cart = sess[r].cart} = {}
           ELSE UNCHANGED <<carts, items>>]_vars

RECURSIVE C6_Sum(_)
C6_Sum(S) ==
    IF S = {} THEN 0
    ELSE LET x == CHOOSE y \in S : TRUE IN x.qty * x.unit_price + C6_Sum(S \ {x})

\* C6: the order a successful checkout returns belongs to the caller, is
\* pending, has exactly one item per item of the cart the checkout loaded,
\* with the same product, quantity and unit price, and its total is the sum
\* of quantity x unit price over these items.
C6_OrderMatchesCart ==
    [][\A r \in Procs : Returns(r) =>
        \E o \in orders' \ orders :
            /\ o.id = last'.order /\ last'.user = sess[r].user
            /\ o.user = sess[r].user /\ o.status = "pending"
            /\ {LineOf(oi) : oi \in OrderLines(o.id)'} = {LineOf(it) : it \in sess[r].items}
            /\ Cardinality(OrderLines(o.id)') = Cardinality(sess[r].items)
            /\ o.total = C6_Sum(sess[r].items)]_vars

\* an order of two lines, one of them of more than one unit, was returned
C6_Witness ==
    /\ last.op = "checkout" /\ last.outcome = "ok"
    /\ Cardinality(OrderLines(last.order)) = 2
    /\ \E oi \in OrderLines(last.order) : oi.qty >= 2
    /\ \E o \in orders : o.id = last.order /\ o.user = last.user /\ o.total > 0

C7_StockLedger == \A p \in Products : stock[p] = MaxStock - Ordered(p)

\* C7: a successful checkout takes from the stock of each product of its
\* cart exactly the quantity of the line and leaves the other products
\* alone, no other operation changes a stock, and so the stock of a product
\* is its initial stock minus the quantities of all order items of it.
C7_StockOnlyByCheckout ==
    [][/\ C7_StockLedger'
       /\ (stock' # stock) => (last'.op = "checkout" /\ last'.outcome = "ok")
       /\ \A r \in Procs : Returns(r) =>
            \A p \in Products : stock'[p] = stock[p] - QtyIn(sess[r].items, p)]_vars

\* a checkout has taken units of one product and left another untouched
C7_Witness ==
    /\ last.op = "checkout" /\ last.outcome = "ok"
    /\ \E p \in Products, q \in Products :
         /\ \A oi \in OrderLines(last.order) : oi.product # q
         /\ \E oi \in OrderLines(last.order) : oi.product = p
         /\ stock[p] = MaxStock - Ordered(p) /\ stock[p] < MaxStock
         /\ stock[q] = MaxStock
\* what a checkout of user u, run alone on the committed rows of this step's
\* first state, returns and leaves behind
C2_Alone(u) ==
    \/ /\ \/ UserCarts(u) = {}
          \/ \E c \in UserCarts(u) : CartItems(c.id) = {}
       /\ last'.outcome = "EmptyCartError"
       /\ UNCHANGED db
    \/ \E c \in UserCarts(u) :
         LET its == CartItems(c.id) IN
         /\ its # {}
         /\ IF \E it \in its : it.qty > stock[it.product]
            THEN last'.outcome = "InsufficientStockError" /\ UNCHANGED db
            ELSE /\ last'.outcome = "ok"
                 /\ \E o \in orders' \ orders :
                      /\ o.id = last'.order /\ o.user = u
                      /\ orders' = orders \cup {o}
                      /\ oitems' = oitems \cup
                            {[order |-> o.id, product |-> it.product, qty |-> it.qty,
                              unit_price |-> it.unit_price] : it \in its}
                 /\ \A p \in Products : stock'[p] = stock[p] - QtyIn(its, p)
                 /\ carts' = carts \ {c}
                 /\ items' = items \ its

\* C2 (as stated): concurrent checkouts behave as if run one after another:
\* each checkout that creates an order or signals EmptyCart or
\* InsufficientStock does, at the step where it completes, what it would do
\* if it ran alone on the rows committed by the checkouts completed before.
C2_Serializable ==
    [][(last'.op = "checkout"
         /\ last'.outcome \in {"ok", "EmptyCartError", "InsufficientStockError"})
        => C2_Alone(last'.user)]_vars
\* C11: the unit price of a cart line is the product's price read when the
\* line was created and never changes afterwards, whatever price changes,
\* add_item or update_item calls follow, and an order line carries the unit
\* price of the cart line it was made from.
C11_PriceSnapshot ==
    [][/\ \A i \in items, j \in items' : (j.id = i.id) => (j.unit_price = i.unit_price)
       /\ \A r \in Procs, u \in Users, p \in Products, q \in 0 .. MaxStock :
            (Arrives /\ sess'[r].op = "add_item" /\ AddItemRead(r, u, p, q))
                => sess'[r].uprice = price[p]
       /\ \A j \in items' :
            (~ \E i \in items : i.id = j.id)
                => \E r \in Procs : sess[r].op = "add_item"
                                    /\ j.product = sess[r].product
                                    /\ j.unit_price = sess[r].uprice
       /\ \A r \in Procs : Returns(r) =>
            \A oi \in oitems' \ oitems :
                \E it \in sess[r].items : it.product = oi.product
                                          /\ it.unit_price = oi.unit_price]_vars

\* an order line and a cart line carry a unit price that is no longer the
\* price of their product
C11_Witness ==
    /\ last.op = "checkout" /\ last.outcome = "ok"
    /\ \E oi \in OrderLines(last.order) : oi.unit_price # price[oi.product]
    /\ \E i \in items : i.unit_price # price[i.product]

\* the reference is given and is no address of user u
BadAddress(u, a) == a # NoAddr /\ (a \notin Addresses \/ AddressOwner[a] # u)

\* C12 (as stated): a checkout given a shipping or billing address that
\* does not exist or belongs to another user signals AddressNotFound and
\* commits nothing.
C12_BadAddressSignalled ==
    [][\A r \in Procs, ab \in AddressPairs, pre \in Prefixes :
        (/\ Validates(r)
         /\ (BadAddress(sess[r].user, ab[1]) \/ BadAddress(sess[r].user, ab[2]))
         /\ CheckoutFlushOrder(r, ab[1], ab[2], pre))
        => (last'.outcome = "AddressNotFoundError" /\ UNCHANGED db)]_vars

\* C12 (amended): a checkout of a cart whose lines are all within stock,
\* given a shipping or billing address that does not exist or belongs to
\* another user, signals AddressNotFound and commits nothing; given two
\* addresses of the caller, the order it creates records exactly these two.
C12_AddressChecked ==
    [][/\ \A r \in Procs, ab \in AddressPairs, pre \in Prefixes :
            (/\ Validates(r)
             /\ \A it \in sess[r].items : it.qty <= stock[it.product]
             /\ CheckoutFlushOrder(r, ab[1], ab[2], pre))
            => IF BadAddress(sess[r].user, ab[1]) \/ BadAddress(sess[r].user, ab[2])
               THEN /\ last'.outcome = "AddressNotFoundError"
                    /\ UNCHANGED db /\ sess'[r] = Idle
               ELSE (ab[1] # NoAddr /\ ab[2] # NoAddr)
                    => /\ sess'[r].pc = "fill"
                       /\ sess'[r].ship = ab[1] /\ sess'[r].bill = ab[2]
       /\ \A r \in Procs :
            (sess[r].op = "checkout" /\ sess[r].pc \in {"fill", "commit"})
            => \/ sess'[r] = Idle
               \/ sess'[r].ship = sess[r].ship /\ sess'[r].bill = sess[r].bill
       /\ \A r \in Procs : Returns(r) =>
            \E o \in orders' \ orders :
                o.id = last'.order /\ o.ship = sess[r].ship /\ o.bill = sess[r].bill]_vars

\* AddressNotFound was signalled to a user whose cart is still there, and
\* no order exists
C12_Witness ==
    /\ last.op = "checkout" /\ last.outcome = "AddressNotFoundError"
    /\ \E c \in UserCarts(last.user) : CartItems(c.id) # {}
    /\ orders = {} /\ \A p \in Products : stock[p] = MaxStock

\* C13 (as stated): a checkout of a non-empty cart whose lines are all
\* within stock, made without address references, goes on to create its
\* order: the absence of the addresses does not make it fail.
C13_NoAddressSucceeds ==
    [][\A r \in Procs, pre \in Prefixes :
        (/\ Validates(r)
         /\ \A it \in sess[r].items : it.qty <= stock[it.product]
         /\ CheckoutFlushOrder(r, NoAddr, NoAddr, pre))
        => (sess'[r].pc = "fill" /\ sess'[r].ship = NoAddr /\ sess'[r].bill = NoAddr)]_vars

\* the add_item of session r completes in this step and returns the cart
AddReturns(r) ==
    sess[r].op = "add_item" /\ sess'[r] = Idle /\ last'.outcome = "ok"

\* C14: a cart holds at most one line per product.  add_item for a product
\* the cart it loaded has a line of adds the requested quantity to that
\* line (new quantity = existing + requested) and creates no line; for a
\* product the cart has no line of, it creates exactly one line, with the
\* requested quantity and the price the product has at the call.
C14_OneLinePerProduct ==
    [][/\ \A i \in items', j \in items' :
            (i.cart = j.cart /\ i.product = j.product) => i = j
       /\ \A r \in Procs, u \in Users, p \in Products, q \in 1 .. MaxStock :
            (Arrives /\ sess'[r].op = "add_item" /\ AddItemRead(r, u, p, q))
            => \E cid \in CartOf(u) :
                LET line == {i \in CartItems(cid) : i.product = p} IN
                /\ sess'[r].cart = cid /\ sess'[r].product = p
                /\ sess'[r].want = q /\ sess'[r].uprice = price[p]
                /\ IF line = {}
                   THEN sess'[r].item = NoItem /\ sess'[r].had = 0
                   ELSE \E i \in line : sess'[r].item = i.id /\ sess'[r].had = i.qty
       /\ \A r \in Procs : AddReturns(r) =>
            IF sess[r].item # NoItem
            THEN /\ {j.id : j \in items'} = {i.id : i \in items}
                 /\ \A i \in items : i.id # sess[r].item => i \in items'
                 /\ \E i \in items, j \in items' :
                        /\ i.id = sess[r].item /\ j.id = i.id
                        /\ j = [i EXCEPT !.qty = sess[r].had + sess[r].want]
            ELSE \E j \in items' \ items :
                    /\ items' = items \cup {j}
                    /\ j.product = sess[r].product
                    /\ j.qty = sess[r].want
                    /\ j.unit_price = sess[r].uprice
                    /\ \E c \in carts' : c.id = j.cart /\ c.user = sess[r].user
                    /\ sess[r].cart # NoCart => j.cart = sess[r].cart]_vars

\* an add_item has added to a line the caller's cart had: the line holds
\* more than one unit and is the only line of its product in its cart
C14_Witness ==
    /\ last.op = "add_item" /\ last.outcome = "ok" /\ last.at = "update"
    /\ \E i \in items :
        /\ i.qty >= 2
        /\ \E c \in UserCarts(last.user) : c.id = i.cart
        /\ Cardinality({j \in items : j.cart = i.cart /\ j.product = i.product}) = 1

\* a request for operation op of user u arrives at session r in this step
Serves(r, op, u) ==
    /\ Arrives /\ sess[r] = Idle
    /\ \/ sess'[r].op = op /\ sess'[r].user = u
       \/ sess'[r] = Idle /\ last'.op = op /\ last'.user = u

\* the quantity the cart cid has of product p
Existing(cid, p) == SumQty({i \in CartItems(cid) : i.product = p})

\* session r writes a line of its cart in this step and returns the cart
Stores(r) ==
    /\ sess[r].op \in {"add_item", "update_item"} /\ sess[r].pc = "write"
    /\ sess'[r] = Idle /\ last'.outcome = "ok"

\* C15: a cart mutation never stores a line quantity above the stock it
\* read.  add_item signals InsufficientStock when existing + requested
\* exceeds the stock, update_item when the new positive quantity does, and
\* then no row changes; otherwise, a quantity equal to the stock included,
\* the operation goes on to store exactly that quantity.
C15_WithinStock ==
    [][/\ \A r \in Procs, u \in Users, p \in Products, q \in 1 .. MaxStock :
            (Serves(r, "add_item", u) /\ AddItemRead(r, u, p, q))
            => \E cid \in CartOf(u) :
                IF Existing(cid, p) + q > stock[p]
                THEN /\ last'.op = "add_item" /\ last'.outcome = "InsufficientStockError"
                     /\ sess'[r] = Idle /\ UNCHANGED db
                ELSE /\ sess'[r].pc = "write" /\ sess'[r].cart = cid
                     /\ sess'[r].product = p
                     /\ sess'[r].qty = Existing(cid, p) + q
                     /\ sess'[r].qty <= stock[p]
                     /\ UNCHANGED db
       /\ \A r \in Procs, u \in Users, iid \in ItemRefs, q \in 1 .. MaxStock + 1 :
            (Serves(r, "update_item", u) /\ UpdateItemRead(r, u, iid, q))
            => \E cid \in CartOf(u) :
                IF ~ InCart(iid, cid)
                THEN last'.outcome \notin {"ok", "InsufficientStockError"} /\ UNCHANGED db
                ELSE IF q > stock[ItemById(iid).product]
                THEN /\ last'.op = "update_item"
                     /\ last'.outcome = "InsufficientStockError"
                     /\ sess'[r] = Idle /\ UNCHANGED db
                ELSE /\ sess'[r].pc = "write" /\ sess'[r].item = iid
                     /\ sess'[r].product = ItemById(iid).product
                     /\ sess'[r].qty = q
                     /\ UNCHANGED db
       /\ \A r \in Procs : Stores(r) =>
            /\ \E j \in items' : j.product = sess[r].product /\ j.qty = sess[r].qty
            /\ \A j \in items' :
                j \in items \/ (j.product = sess[r].product /\ j.qty = sess[r].qty)]_vars

\* InsufficientStock was signalled to a cart mutation of a user whose cart
\* has a line that holds exactly the stock of its product, after a checkout
\* has lowered that stock
C15_Witness ==
    /\ last.op \in {"add_item", "update_item"}
    /\ last.outcome = "InsufficientStockError"
    /\ \E i \in items :
        /\ \E c \in UserCarts(last.user) : c.id = i.cart
        /\ i.qty = stock[i.product]
        /\ stock[i.product] < MaxStock

\* the update_item of session r deletes its line in this step and returns
\* the cart
DeleteReturns(r) ==
    /\ sess[r].op = "update_item" /\ sess[r].pc = "delete"
    /\ sess'[r] = Idle /\ last'.outcome = "ok"

\* C16: every cart line has quantity >= 1.  add_item rejects a requested
\* quantity below 1 as a validation error and changes no row; update_item
\* with quantity <= 0 on a line of the cart it loaded deletes that line,
\* and nothing else, instead of storing the quantity.
C16_QuantityAtLeastOne ==
    /\ \A i \in items : i.qty >= 1
    /\ [][/\ \A i \in items' : i.qty >= 1
          /\ \A r \in Procs, u \in Users, p \in Products, q \in {NegQty, 0} :
                (Serves(r, "add_item", u) /\ AddItemRead(r, u, p, q))
                => /\ last'.op = "add_item" /\ last'.outcome = "ValidationError"
                   /\ sess'[r] = Idle /\ UNCHANGED db
          /\ \A r \in Procs, u \in Users, iid \in ItemRefs, q \in {NegQty, 0} :
                (Serves(r, "update_item", u) /\ UpdateItemRead(r, u, iid, q))
                => \E cid \in CartOf(u) :
                    IF ~ InCart(iid, cid)
                    THEN last'.outcome # "ok" /\ UNCHANGED db
                    ELSE /\ sess'[r].pc = "delete" /\ sess'[r].cart = cid
                         /\ sess'[r].item = iid /\ UNCHANGED db
          /\ \A r \in Procs : DeleteReturns(r) =>
                /\ items' = {i \in items : i.id # sess[r].item}
                /\ UNCHANGED <<stock, price, carts, orders, oitems>>]_vars

\* an update_item has deleted a line and returned the cart of its user,
\* which has no line left
C16_Witness ==
    /\ last.op = "update_item" /\ last.outcome = "ok" /\ last.at = "delete"
    /\ UserCarts(last.user) # {}
    /\ \A c \in UserCarts(last.user) : CartItems(c.id) = {}

\* C17 (as stated): update_item on an item id that does not exist or that
\* is no line of the caller's own cart signals CartItemNotFound, whatever
\* the quantity, and changes no cart line of any user.
C17_MissingItemSignalled ==
    [][\A r \in Procs, u \in Users, iid \in ItemRefs, q \in UpdateQuantities :
        (/\ Serves(r, "update_item", u)
         /\ \A cid \in CartOf(u) : ~ InCart(iid, cid)
         /\ UpdateItemRead(r, u, iid, q))
        => /\ last'.op = "update_item" /\ last'.outcome = "CartItemNotFoundError"
           /\ UNCHANGED <<carts, items>>]_vars

\* the remove_item of session r completes in this step
RemoveReturns(r) ==
    /\ sess[r].op = "remove_item" /\ sess[r].pc = "delete"
    /\ sess'[r] = Idle /\ last'.outcome = "ok"

\* C18 (as stated): remove_item deletes the line when the item is a line of
\* the caller's cart; when the item id is absent or belongs to another
\* user's cart, whether or not the caller has a cart, it signals
\* CartItemNotFound and deletes nothing.
C18_RemoveOrSignal ==
    [][/\ \A r \in Procs, u \in Users, iid \in ItemRefs :
            (Serves(r, "remove_item", u) /\ RemoveItemRead(r, u, iid))
            => \E cid \in CartOf(u) :
                IF InCart(iid, cid)
                THEN /\ sess'[r].pc = "delete" /\ sess'[r].item = iid
                     /\ UNCHANGED db
                ELSE /\ last'.op = "remove_item"
                     /\ last'.outcome = "CartItemNotFoundError"
                     /\ sess'[r] = Idle /\ UNCHANGED db
       /\ \A r \in Procs : RemoveReturns(r) =>
            /\ items' = {i \in items : i.id # sess[r].item}
            /\ UNCHANGED <<stock, price, carts, orders, oitems>>]_vars

\* C19: update_item with quantity = None on a line of the cart it loaded
\* returns the cart and changes nothing: no row of any table changes and
\* the session has nothing left to write.
C19_NoneQuantityNoOp ==
    [][\A r \in Procs, u \in Users, iid \in ItemRefs :
        (Serves(r, "update_item", u) /\ UpdateItemRead(r, u, iid, NoQty))
        => \E cid \in CartOf(u) :
            IF InCart(iid, cid)
            THEN /\ last'.op = "update_item" /\ last'.outcome = "ok"
                 /\ sess'[r] = Idle
                 /\ UNCHANGED db
                 /\ CartItems(cid)' = CartItems(cid)
            ELSE last'.outcome # "ok" /\ UNCHANGED db]_vars

\* an update_item without a quantity has returned the cart of its user,
\* which has its lines
C19_Witness ==
    /\ last.op = "update_item" /\ last.outcome = "ok" /\ last.at = "unset"
    /\ \E c \in UserCarts(last.user) : CartItems(c.id) # {}

\* the clear of session r deletes its cart in this step and returns
ClearReturns(r) ==
    /\ sess[r].op = "clear" /\ sess[r].pc = "delete"
    /\ sess'[r] = Idle /\ last'.outcome = "ok"

\* C20 (as stated): clear(user) deletes the user's cart together with all
\* its items when a cart exists and is a successful no-op when none exists;
\* it changes no product, no order and no cart of another user; and after
\* it the user has no cart, so that a second clear in a row finds nothing
\* to delete and leaves the state the first one left.
C20_ClearIdempotent ==
    [][/\ \A r \in Procs, u \in Users :
            (Serves(r, "clear", u) /\ ClearRead(r, u))
            => IF UserCarts(u) = {}
               THEN /\ last'.op = "clear" /\ last'.outcome = "ok"
                    /\ sess'[r] = Idle /\ UNCHANGED db
               ELSE /\ sess'[r].pc = "delete"
                    /\ \E c \in UserCarts(u) : sess'[r].cart = c.id
                    /\ UNCHANGED db
       /\ \A r \in Procs : ClearReturns(r) =>
            /\ carts' = {c \in carts : c.id # sess[r].cart}
            /\ items' = {i \in items : i.cart # sess[r].cart}
            /\ UNCHANGED <<stock, price, orders, oitems>>
            /\ \A c \in carts : c.user # sess[r].user =>
                    (c \in carts' /\ \A i \in items : i.cart = c.id => i \in items')
            /\ (\E c \in carts : c.id = sess[r].cart)
                    => {c \in carts' : c.user = sess[r].user} = {}]_vars

\* the orders of user u
OwnOrders(u) == {o \in orders : o.user = u}

\* what get_user_order answers user u who asks for order oid, given the
\* orders tbl of that user alone
OrderAnswer(tbl, u, oid) ==
    IF \E o \in tbl : o.id = oid
    THEN [Done("get_order", u, "ok", oid, "none") EXCEPT !.found = {o \in tbl : o.id = oid}]
    ELSE [Done("get_order", u, "OrderNotFoundError", NoOrder, "none") EXCEPT !.at = "idle"]

\* C21: get_user_order returns the order exactly when it exists and is the
\* caller's; otherwise the outcome is OrderNotFound, the same whether the
\* order is another user's or does not exist.  The answer is a function of
\* the caller's own orders, so the orders of other users do not show in it;
\* and the call writes nothing.
C21_OwnOrdersOnly ==
    [][\A r \in Procs, u \in Users, oid \in OrderIds \cup {MissingOrder} :
        (Serves(r, "get_order", u) /\ GetUserOrder(r, u, oid))
        => /\ last' = OrderAnswer(OwnOrders(u), u, oid)
           /\ (oid \notin {o.id : o \in OwnOrders(u)})
                => last' = OrderAnswer(OwnOrders(u), u, MissingOrder)
           /\ UNCHANGED <<db, lock, sess>>]_vars

\* OrderNotFound was signalled to a user who has no order while another
\* user has one
C21_Witness ==
    /\ last.op = "get_order" /\ last.outcome = "OrderNotFoundError"
    /\ OwnOrders(last.user) = {}
    /\ \E o \in orders : o.user # last.user

\* the status of some order changes in this step
StatusChanges == \E o \in orders, o2 \in orders' : o2.id = o.id /\ o2.status # o.status

\* C22: a status request of a caller without the admin role is answered
\* with InsufficientPermission and leaves every row and every session as it
\* was, whoever owns the order and whatever status is asked for; a status
\* changes only in the write of a status request that was let through.
C22_AdminOnly ==
    [][/\ \A r \in Procs, c \in Users, oid \in OrderIds \cup {MissingOrder},
                                      ns \in StatusNames :
            (Arrives /\ sess[r] = Idle /\ UpdateStatusRoute(r, c, oid, ns))
            => /\ last' = Done("update_status", c, "InsufficientPermissionError", oid, ns)
               /\ UNCHANGED <<db, lock, sess>>
       /\ StatusChanges =>
            \E r \in Procs : /\ sess[r].op = "update_status" /\ sess[r].pc = "write"
                             /\ sess'[r] = Idle
                             /\ last'.user = Admin]_vars

\* InsufficientPermission was signalled to the owner of an order who asked
\* for a status that the table allows from the one the order has
C22_Witness ==
    /\ last.op = "update_status" /\ last.outcome = "InsufficientPermissionError"
    /\ \E o \in orders : /\ o.id = last.order /\ o.user = last.user
                         /\ last.status \in Allowed(o.status)
                         /\ last.status \in OrderStatus

CartOps == {"get_or_create", "add_item", "update_item", "remove_item", "clear"}

\* the rows of carts and of cart_items that this step adds, deletes or
\* rewrites
ChangedCarts == (carts \ carts') \cup (carts' \ carts)
ChangedLines == (items \ items') \cup (items' \ items)

\* C23: cart operations are scoped to the calling user.  Rows of carts and
\* cart_items change only in the write of a cart operation, and then every
\* cart that changes is the caller's and every line that is added, deleted
\* or rewritten is a line of a cart of the caller: no call of user A touches
\* a cart or a line of user B, and a line enters A's cart only by A's call.
C23_CartsIsolated ==
    [][(ChangedCarts \cup ChangedLines # {}) =>
         \E r \in Procs :
            /\ sess[r].op \in CartOps /\ sess'[r] = Idle
            /\ last'.user = sess[r].user
            /\ \A c \in ChangedCarts : c.user = sess[r].user
            /\ \A i \in ChangedLines :
                  \E c \in carts \cup carts' : c.id = i.cart /\ c.user = sess[r].user]_vars

\* a user has deleted a line of the own cart with update_item while the
\* other user has a cart with a line
C23_Witness ==
    /\ last.op = "update_item" /\ last.outcome = "ok" /\ last.at = "delete"
    /\ UserCarts(last.user) # {}
    /\ \E c \in carts : c.user # last.user /\ CartItems(c.id) # {}

\* the error taxonomy: the status of each domain error of the core
Taxonomy ==
    [EmptyCartError                    |-> 400,
     InsufficientStockError            |-> 400,
     CartItemNotFoundError             |-> 404,
     ProductNotFoundError              |-> 404,
     AddressNotFoundError              |-> 404,
     OrderNotFoundError                |-> 404,
     InvalidOrderStatusTransitionError |-> 400,
     InsufficientPermissionError       |-> 403]

StatusStep ==
    \/ last'.op = "update_status"
    \/ \E r \in Procs : sess[r].op = "update_status" \/ sess'[r].op = "update_status"

\* C25: update_order_status changes nothing but the status of an order:
\* every order keeps its id, owner, number, total and address references,
\* no order appears or disappears, and order items, stock, prices, carts
\* and cart lines stay as they are; so a canceled order's quantities do not
\* go back into the stock.
C25_OnlyStatusChanges ==
    [][StatusStep =>
        /\ \A o \in orders : \E o2 \in orders' : o2 = [o EXCEPT !.status = o2.status]
        /\ \A o2 \in orders' : \E o \in orders : o2.id = o.id
        /\ UNCHANGED <<stock, price, carts, items, oitems>>]_vars

\* an order has been moved to canceled, and the stock still lacks what the
\* orders hold
C25_Witness ==
    /\ last.op = "update_status" /\ last.outcome = "ok"
    /\ last.status = "canceled" /\ last.from # "canceled"
    /\ \E o \in orders : o.id = last.order /\ o.status = "canceled"
                         /\ OrderLines(o.id) # {}
    /\ \A p \in Products : stock[p] = MaxStock - Ordered(p)

\* the place of a status on the longest path of the table
Rank == [pending |-> 0, processing |-> 1, shipped |-> 2, delivered |-> 3,
         returned |-> 4, refunded |-> 5]

\* C26 (as stated): every order starts in pending; an order that is
\* canceled or refunded never changes its status again; and no order
\* returns to a status it has left: it enters canceled from elsewhere or
\* moves forward on the path pending, processing, shipped, delivered,
\* returned, refunded (each status is written from one that the order had,
\* so a step back on the path is a return), which bounds the number of
\* changes by 5.
C26_Lifecycle ==
    [][/\ \A o2 \in orders' : (o2.id \notin OrderIds) => o2.status = "pending"
       /\ \A o \in orders, o2 \in orders' :
            (o2.id = o.id /\ o2.status # o.status)
            => /\ o.status \notin {"canceled", "refunded"}
               /\ (o2.status # "canceled") => Rank[o2.status] > Rank[o.status]]_vars

\* C27 (as stated): a cart is converted into at most one order: a checkout
\* creates an order and takes stock only from a cart that is still there,
\* and deletes that cart in the same step, so of two concurrent checkouts of
\* one user on one cart at most one orders.
C27_CartOrderedOnce ==
    [][\A r \in Procs :
        (sess[r].op = "checkout" /\ sess'[r] = Idle
            /\ (orders' # orders \/ stock' # stock))
        => \E c \in carts : c.id = sess[r].cart /\ c \notin carts']_vars

C29_NoLostIncrement ==
    [][\A r \in Procs :
        (sess[r].op = "add_item" /\ sess[r].cart # NoCart
            /\ sess'[r] = Idle /\ last'.outcome = "ok")
        => \E j \in items' :
            /\ j.cart = sess[r].cart /\ j.product = sess[r].product
            /\ j.qty = Existing(sess[r].cart, sess[r].product) + sess[r].want
            /\ \A k \in items' :
                (k.cart = j.cart /\ k.product = j.product) => k = j]_vars

\* C30 (as stated): distinct orders have distinct order numbers, the number
\* of an order is "ORD-" followed by the upper-cased first characters of its
\* identifier, and the number a checkout assigns in step 5 is never the
\* number of an existing order, so that no checkout fails there.
C30_NumbersNeverConflict ==
    [][/\ \A o1 \in orders', o2 \in orders' : (o1.id # o2.id) => (o1.number # o2.number)
       /\ \A o \in orders' : o.number = OrderNumber(o.id)
       /\ \A r \in Procs :
            (sess[r].op = "checkout" /\ sess[r].pc = "fill" /\ sess'[r] # sess[r])
            => \/ last'.outcome = "Aborted"
               \/ /\ sess'[r].pc = "commit"
                  /\ \A o \in orders : o.number # OrderNumber(sess[r].order)]_vars

====
